---------------------------- MODULE Spec2Model ----------------------------
(***************************************************************************)
(* A model of sunraster/spectrogram.py: the axis-name resolver             *)
(* (_find_axis_name, _find_name_in_array), the SpectrogramCube container   *)
(* (construction, the five coordinate accessors, slicing) and the          *)
(* exposure-time correction (apply / undo with the unit guards).           *)
(*                                                                         *)
(* Python None is modelled as the empty sequence <<>> and a present value  *)
(* x as <<x>>.  Floating-point numbers are modelled as binary floats with  *)
(* a MantBits-bit significand and round-to-nearest-even, so that division  *)
(* followed by multiplication rounds twice, as numpy's float64 does.       *)
(***************************************************************************)
EXTENDS Integers, Sequences, FiniteSets, TLC

VARIABLES orig, hist, cube, last

vars == <<orig, hist, cube, last>>

-----------------------------------------------------------------------------
(* Bounds of the model.                                                    *)

\* bits of the significand of a float (float64 has 53)
MantBits == 4
\* largest number of data dimensions of a constructed cube
MaxDim == 4
\* length of the first and of the last data axis
MaxLen == 2
\* number of returned cubes that become the receiver of further calls
MaxChain == 1
\* number of cubes an unforced correction returned that become the receiver
\* of further unforced corrections
MaxUnforced == 4
\* longest list of WCS physical types handed to the resolver on its own
MaxTypes == 3
\* largest number of keys of a side table handed to the resolver on its own
MaxKeys == 2

None == <<>>
Some(x) == <<x>>
IsNone(o) == o = <<>>
Get(o) == o[1]

RECURSIVE Pow2(_)
Pow2(n) == IF n <= 0 THEN 1 ELSE 2 * Pow2(n - 1)

Min(a, b) == IF a <= b THEN a ELSE b

RECURSIVE IndicesIn(_, _, _)
\* the positions (1-based, ascending, from i on) of the elements of s that are in S
IndicesIn(s, S, i) ==
    IF i > Len(s) THEN <<>>
    ELSE (IF s[i] \in S THEN <<i>> ELSE <<>>) \o IndicesIn(s, S, i + 1)

Range(s) == {s[i] : i \in DOMAIN s}

-----------------------------------------------------------------------------
(* Supported coordinate names, spectrogram.py lines 22-50.                 *)

\* str.upper() on the base names of the five lists
Upper(name) ==
    CASE name = "custom:pos.helioprojective.lon" -> "CUSTOM:POS.HELIOPROJECTIVE.LON"
      [] name = "pos.helioprojective.lon" -> "POS.HELIOPROJECTIVE.LON"
      [] name = "longitude" -> "LONGITUDE"
      [] name = "lon" -> "LON"
      [] name = "custom:pos.helioprojective.lat" -> "CUSTOM:POS.HELIOPROJECTIVE.LAT"
      [] name = "pos.helioprojective.lat" -> "POS.HELIOPROJECTIVE.LAT"
      [] name = "latitude" -> "LATITUDE"
      [] name = "lat" -> "LAT"
      [] name = "em.wl" -> "EM.WL"
      [] name = "em.energy" -> "EM.ENERGY"
      [] name = "em.freq" -> "EM.FREQ"
      [] name = "wavelength" -> "WAVELENGTH"
      [] name = "energy" -> "ENERGY"
      [] name = "frequency" -> "FREQUENCY"
      [] name = "freq" -> "FREQ"
      [] name = "lambda" -> "LAMBDA"
      [] name = "spectral" -> "SPECTRAL"
      [] name = "time" -> "TIME"
      [] name = "exposure time" -> "EXPOSURE TIME"
      [] name = "exposure_time" -> "EXPOSURE_TIME"
      [] name = "exposure times" -> "EXPOSURE TIMES"
      [] name = "exposure_times" -> "EXPOSURE_TIMES"
      [] name = "exp time" -> "EXP TIME"
      [] name = "exp_time" -> "EXP_TIME"
      [] name = "exp times" -> "EXP TIMES"
      [] name = "exp_times" -> "EXP_TIMES"

\* str.capitalize() on the base names of the five lists
Capitalize(name) ==
    CASE name = "custom:pos.helioprojective.lon" -> "Custom:pos.helioprojective.lon"
      [] name = "pos.helioprojective.lon" -> "Pos.helioprojective.lon"
      [] name = "longitude" -> "Longitude"
      [] name = "lon" -> "Lon"
      [] name = "custom:pos.helioprojective.lat" -> "Custom:pos.helioprojective.lat"
      [] name = "pos.helioprojective.lat" -> "Pos.helioprojective.lat"
      [] name = "latitude" -> "Latitude"
      [] name = "lat" -> "Lat"
      [] name = "em.wl" -> "Em.wl"
      [] name = "em.energy" -> "Em.energy"
      [] name = "em.freq" -> "Em.freq"
      [] name = "wavelength" -> "Wavelength"
      [] name = "energy" -> "Energy"
      [] name = "frequency" -> "Frequency"
      [] name = "freq" -> "Freq"
      [] name = "lambda" -> "Lambda"
      [] name = "spectral" -> "Spectral"
      [] name = "time" -> "Time"
      [] name = "exposure time" -> "Exposure time"
      [] name = "exposure_time" -> "Exposure_time"
      [] name = "exposure times" -> "Exposure times"
      [] name = "exposure_times" -> "Exposure_times"
      [] name = "exp time" -> "Exp time"
      [] name = "exp_time" -> "Exp_time"
      [] name = "exp times" -> "Exp times"
      [] name = "exp_times" -> "Exp_times"

\* base + [name.upper() for name in base] + [name.capitalize() for name in base]
WithCaseVariants(base) ==
    base \o [i \in 1..Len(base) |-> Upper(base[i])]
         \o [i \in 1..Len(base) |-> Capitalize(base[i])]

SUPPORTED_LONGITUDE_NAMES ==
    WithCaseVariants(<<"custom:pos.helioprojective.lon", "pos.helioprojective.lon",
                       "longitude", "lon">>)

SUPPORTED_LATITUDE_NAMES ==
    WithCaseVariants(<<"custom:pos.helioprojective.lat", "pos.helioprojective.lat",
                       "latitude", "lat">>)

SUPPORTED_SPECTRAL_NAMES ==
    WithCaseVariants(<<"em.wl", "em.energy", "em.freq", "wavelength", "energy",
                       "frequency", "freq", "lambda", "spectral">>)

SUPPORTED_TIME_NAMES == WithCaseVariants(<<"time">>)

SUPPORTED_EXPOSURE_NAMES ==
    WithCaseVariants(<<"exposure time", "exposure_time", "exposure times",
                       "exposure_times", "exp time", "exp_time", "exp times",
                       "exp_times">>)

Quantities == {"longitude", "latitude", "spectral", "time", "exposure_time"}

SupportedNames(q) ==
    CASE q = "longitude" -> SUPPORTED_LONGITUDE_NAMES
      [] q = "latitude" -> SUPPORTED_LATITUDE_NAMES
      [] q = "spectral" -> SUPPORTED_SPECTRAL_NAMES
      [] q = "time" -> SUPPORTED_TIME_NAMES
      [] q = "exposure_time" -> SUPPORTED_EXPOSURE_NAMES

-----------------------------------------------------------------------------
(* The resolver, spectrogram.py lines 292-333.                             *)

\* np.isin(names_array, supported_names) as the list of matching positions;
\* int() of the selected positions fails unless exactly one is selected.
_find_name_in_array(supported_names, names_array) ==
    LET hits == IndicesIn(names_array, Range(supported_names), 1)
    IN  IF Len(hits) > 0
        THEN IF Len(hits) = 1
             THEN [status |-> "ok", name |-> Some(names_array[hits[1]])]
             ELSE [status |-> "TypeError", name |-> None]
        ELSE [status |-> "ok", name |-> None]

\* extra_coords is None, or Some(sequence of entries [name, axis, value]) in
\* the order of the dict's keys; an empty dict is falsy like None.
ExtraKeys(entries) == [i \in 1..Len(entries) |-> entries[i].name]

\* _find_axis_name looking in the side table first
_find_axis_name_table_first(supported_names, world_axis_physical_types, extra_coords) ==
    LET x == IF ~IsNone(extra_coords) /\ Len(Get(extra_coords)) > 0
             THEN _find_name_in_array(supported_names, ExtraKeys(Get(extra_coords)))
             ELSE [status |-> "ok", name |-> None]
        w == _find_name_in_array(supported_names, world_axis_physical_types)
    IN  IF x.status = "ok" /\ ~IsNone(x.name)
        THEN [status |-> "ok", name |-> x.name, loc |-> Some("extra_coords")]
        ELSE IF w.status = "ok" /\ ~IsNone(w.name)
        THEN [status |-> "ok", name |-> w.name, loc |-> Some("wcs")]
        ELSE [status |-> IF x.status # "ok" THEN x.status ELSE w.status,
              name |-> None, loc |-> None]

_find_axis_name(supported_names, world_axis_physical_types, extra_coords) ==
    LET w == _find_name_in_array(supported_names, world_axis_physical_types)
    IN  IF w.status # "ok" THEN [status |-> w.status, name |-> None, loc |-> None]
        ELSE IF ~IsNone(w.name)
        THEN [status |-> "ok", name |-> w.name, loc |-> Some("wcs")]
        ELSE IF ~IsNone(extra_coords) /\ Len(Get(extra_coords)) > 0
        THEN LET x == _find_name_in_array(supported_names, ExtraKeys(Get(extra_coords)))
             IN  IF x.status # "ok"
                 THEN [status |-> x.status, name |-> None, loc |-> None]
                 ELSE IF ~IsNone(x.name)
                 THEN [status |-> "ok", name |-> x.name, loc |-> Some("extra_coords")]
                 ELSE [status |-> "ok", name |-> None, loc |-> None]
        ELSE [status |-> "ok", name |-> None, loc |-> None]

-----------------------------------------------------------------------------
(* Floating-point arithmetic of the data arrays (numpy float64, here with  *)
(* MantBits bits).  A float is [k, m, e]: k = "num" stands for m * 2^e     *)
(* with m = 0 or 2^(MantBits-1) <= m < 2^MantBits; k = "inf" and k = "nan" *)
(* are the IEEE results of dividing by zero.  Values are non-negative      *)
(* (detector counts, durations).                                          *)

FZero == [k |-> "num", m |-> 0, e |-> 0]
FInf == [k |-> "inf", m |-> 0, e |-> 0]
FNan == [k |-> "nan", m |-> 0, e |-> 0]

RECURSIVE RoundRat(_, _, _)
\* the float nearest to (n / d) * 2^e, ties to the even significand
RoundRat(n, d, e) ==
    IF n = 0 THEN FZero
    ELSE IF n >= d * Pow2(MantBits) THEN RoundRat(n, 2 * d, e + 1)
    ELSE IF n < d * Pow2(MantBits - 1) THEN RoundRat(2 * n, d, e - 1)
    ELSE LET q == n \div d
             r == n % d
             m == IF 2 * r > d \/ (2 * r = d /\ q % 2 = 1) THEN q + 1 ELSE q
         IN  IF m = Pow2(MantBits)
             THEN [k |-> "num", m |-> Pow2(MantBits - 1), e |-> e + 1]
             ELSE [k |-> "num", m |-> m, e |-> e]

\* the float of a non-negative integer
F(n) == RoundRat(n, 1, 0)

\* a / b of two floats
FDiv(a, b) ==
    IF a.k = "nan" \/ b.k = "nan" THEN FNan
    ELSE IF a.k = "inf" THEN (IF b.k = "inf" THEN FNan ELSE FInf)
    ELSE IF b.k = "inf" THEN FZero
    ELSE IF b.m = 0 THEN (IF a.m = 0 THEN FNan ELSE FInf)
    ELSE RoundRat(a.m, b.m, a.e - b.e)

\* a * b of two floats
FMul(a, b) ==
    IF a.k = "nan" \/ b.k = "nan" THEN FNan
    ELSE IF a.k = "inf" THEN (IF b.k = "num" /\ b.m = 0 THEN FNan ELSE FInf)
    ELSE IF b.k = "inf" THEN (IF a.m = 0 THEN FNan ELSE FInf)
    ELSE RoundRat(a.m * b.m, 1, a.e + b.e)

-----------------------------------------------------------------------------
(* Units (astropy.units): a unit is its decomposition into base units, a   *)
(* function from base unit to exponent.                                    *)

BaseUnits == {"ct", "s"}

u_ct == [b \in BaseUnits |-> IF b = "ct" THEN 1 ELSE 0]
u_s == [b \in BaseUnits |-> IF b = "s" THEN 1 ELSE 0]

\* a product that leaves the second factor out
UnitMulDroppingFactor(x, y) == x

UnitMul(x, y) == [b \in BaseUnits |-> x[b] + y[b]]
UnitDiv(x, y) == [b \in BaseUnits |-> x[b] - y[b]]

\* unit.decompose().bases: the base units with a non-zero exponent
DecomposeBases(x) == {b \in BaseUnits : x[b] # 0}

\* Quantity.to(u.s).value for a duration in seconds or in minutes
ToSeconds(q) ==
    IF q.unit = "min"
    THEN [q EXCEPT !.vals = [i \in 1..Len(q.vals) |-> FMul(q.vals[i], F(60))],
                   !.unit = "s"]
    ELSE q

-----------------------------------------------------------------------------
(* N-dimensional arrays (numpy.ndarray): [shape, val], val a function from *)
(* the index tuples (1-based) of the shape to the elements.                *)

IndexSet(shape) ==
    {idx \in [1..Len(shape) -> 1..MaxLen] : \A i \in 1..Len(shape) : idx[i] <= shape[i]}

\* the per-exposure values laid along the last data axis instead of the first
ExposureAlongLastAxis(t, idx) ==
    IF t.scalar THEN t.vals[1] ELSE t.vals[((idx[Len(idx)] - 1) % Len(t.vals)) + 1]

\* array (op) t for a scalar t, and for a per-exposure t of shape
\* (shape[1],) reshaped to (shape[1], 1, ..., 1): element idx meets t[idx[1]]
ExposureAt(t, idx) == IF t.scalar THEN t.vals[1] ELSE t.vals[idx[1]]

ArrayDiv(a, t) == [a EXCEPT !.val = [idx \in DOMAIN a.val |-> FDiv(a.val[idx], ExposureAt(t, idx))]]

ArrayMul(a, t) == [a EXCEPT !.val = [idx \in DOMAIN a.val |-> FMul(a.val[idx], ExposureAt(t, idx))]]

-----------------------------------------------------------------------------
(* Error messages, spectrogram.py lines 12-20.                             *)

APPLY_EXPOSURE_TIME_ERROR ==
    "Exposure time correction has probably already been applied since the unit already includes inverse time. To apply exposure time correction anyway, set 'force' kwarg to True."

UNDO_EXPOSURE_TIME_ERROR ==
    "Exposure time correction has probably already been undone since the unit does not include inverse time. To undo exposure time correction anyway, set 'force' kwarg to True."

AXIS_NOT_FOUND_ERROR == " axis not found. If in extra_coords, axis name must be supported: "

DIMENSIONS_ERROR == "SpectrogramCube dimensions must be 2 or 3. Dimensions={}"

\* an exception: its class, and the parts its message is put together from
Raise(kind, head, text, names) ==
    [status |-> kind, msg |-> [head |-> head, text |-> text, names |-> names]]

NoError == [head |-> "", text |-> "", names |-> <<>>]

-----------------------------------------------------------------------------
(* The labeled-array primitive (ndcube.NDCube), as far as the cube uses it. *)

\* NDCube.world_axis_physical_types: the physical types of the WCS axes that
\* are not missing, in data-axis order
world_axis_physical_types(wcs, missing_axes) ==
    LET kept == IndicesIn(missing_axes, {FALSE}, 1)
    IN  [i \in 1..Len(kept) |-> wcs.types[kept[i]]]

\* NDCube.__init__'s formatting of the extra_coords input, an iterable of
\* (name, data axis or None, values), and the extra_coords property on top
\* of it: a dict keyed by name, None when there is no entry
NDCubeExtraCoords(extra_coords_input) ==
    IF IsNone(extra_coords_input) \/ Len(Get(extra_coords_input)) = 0 THEN None
    ELSE LET inp == Get(extra_coords_input)
         IN  Some([i \in 1..Len(inp) |->
                     [name |-> inp[i][1], axis |-> inp[i][2], value |-> inp[i][3]]])

\* ndcube.utils.cube.convert_extra_coords_dict_to_input_format
convert_extra_coords_dict_to_input_format(extra_coords) ==
    IF IsNone(extra_coords) THEN [status |-> "AttributeError", value |-> None]
    ELSE LET d == Get(extra_coords)
         IN  [status |-> "ok",
              value |-> Some([i \in 1..Len(d) |-> <<d[i].name, d[i].axis, d[i].value>>])]

\* NDCube.axis_world_coords(name): the coordinate values the WCS gives for
\* the axis of that physical type; the values themselves are left abstract
axis_world_coords(wcs, axis_name) ==
    [scalar |-> FALSE, vals |-> <<>>, unit |-> "world:" \o axis_name]

-----------------------------------------------------------------------------
(* SpectrogramCube.__init__, spectrogram.py lines 152-170.                 *)

__init__(data, wcs, extra_coords_input, unit, uncertainty, meta, mask, missing_axes) ==
    LET self_extra_coords == NDCubeExtraCoords(extra_coords_input)
        types == world_axis_physical_types(wcs, missing_axes)
        lon == _find_axis_name(SUPPORTED_LONGITUDE_NAMES, types, self_extra_coords)
        lat == _find_axis_name(SUPPORTED_LATITUDE_NAMES, types, self_extra_coords)
        spe == _find_axis_name(SUPPORTED_SPECTRAL_NAMES, types, self_extra_coords)
        tim == _find_axis_name(SUPPORTED_TIME_NAMES, types, self_extra_coords)
        ex == _find_axis_name(SUPPORTED_EXPOSURE_NAMES, types, self_extra_coords)
        failed == IndicesIn(<<lon.status, lat.status, spe.status, tim.status, ex.status>>,
                            {"TypeError"}, 1)
    IN  IF Len(failed) > 0
        THEN [status |-> "TypeError", msg |-> NoError, cube |-> None]
        ELSE [status |-> "ok", msg |-> NoError,
              cube |-> Some([data |-> data, wcs |-> wcs, extra_coords |-> self_extra_coords,
                             unit |-> unit, uncertainty |-> uncertainty, meta |-> meta,
                             mask |-> mask, missing_axes |-> missing_axes,
                             _longitude_name |-> lon.name, _longitude_loc |-> lon.loc,
                             _latitude_name |-> lat.name, _latitude_loc |-> lat.loc,
                             _spectral_name |-> spe.name, _spectral_loc |-> spe.loc,
                             _time_name |-> tim.name, _time_loc |-> tim.loc,
                             _exposure_time_name |-> ex.name,
                             _exposure_time_loc |-> ex.loc])]

-----------------------------------------------------------------------------
(* The accessors, spectrogram.py lines 222-255 and 285-289.                *)

RECURSIVE EntryNamed(_, _, _)
\* extra_coords[axis_name]
EntryNamed(entries, axis_name, i) ==
    IF entries[i].name = axis_name THEN entries[i] ELSE EntryNamed(entries, axis_name, i + 1)

_get_axis_coord(self, axis_name, coord_loc) ==
    IF coord_loc = Some("wcs")
    THEN Some(axis_world_coords(self.wcs, Get(axis_name)))
    ELSE IF coord_loc = Some("extra_coords")
    THEN Some(EntryNamed(Get(self.extra_coords), Get(axis_name), 1).value)
    ELSE None

Returned(value) == [status |-> "ok", msg |-> NoError, value |-> value]

spectral_axis(self) ==
    IF IsNone(self._spectral_name)
    THEN Raise("ValueError", "Spectral", AXIS_NOT_FOUND_ERROR, SUPPORTED_SPECTRAL_NAMES)
           @@ [value |-> None]
    ELSE Returned(_get_axis_coord(self, self._spectral_name, self._spectral_loc))

\* the message names SUPPORTED_TIMES_NAMES, which is not defined
time(self) ==
    IF IsNone(self._time_name)
    THEN Raise("NameError", "", "name 'SUPPORTED_TIMES_NAMES' is not defined", <<>>)
           @@ [value |-> None]
    ELSE Returned(_get_axis_coord(self, self._time_name, self._time_loc))

exposure_time(self) ==
    IF IsNone(self._exposure_time_name)
    THEN Raise("ValueError", "Exposure time", AXIS_NOT_FOUND_ERROR, SUPPORTED_EXPOSURE_NAMES)
           @@ [value |-> None]
    ELSE Returned(_get_axis_coord(self, self._exposure_time_name, self._exposure_time_loc))

lon(self) ==
    IF IsNone(self._longitude_name)
    THEN Raise("ValueError", "Longitude", AXIS_NOT_FOUND_ERROR, SUPPORTED_LONGITUDE_NAMES)
           @@ [value |-> None]
    ELSE Returned(_get_axis_coord(self, self._longitude_name, self._longitude_loc))

\* the message names SUPPORTED_LATITUDE_NAME, which is not defined
lat(self) ==
    IF IsNone(self._latitude_name)
    THEN Raise("NameError", "", "name 'SUPPORTED_LATITUDE_NAME' is not defined", <<>>)
           @@ [value |-> None]
    ELSE Returned(_get_axis_coord(self, self._latitude_name, self._latitude_loc))

-----------------------------------------------------------------------------
(* Exposure-time correction, spectrogram.py lines 257-283 and 336-401.     *)

\* _calculate_exposure_time_correction with the guard of the undo direction
_calculate_with_undo_guard(old_data_arrays, old_unit, exposure, force) ==
    IF force # TRUE /\ "s" \in DecomposeBases(UnitMul(old_unit, u_s))
    THEN Raise("ValueError", "", APPLY_EXPOSURE_TIME_ERROR, <<>>)
           @@ [new_data_arrays |-> <<>>, new_unit |-> old_unit]
    ELSE [status |-> "ok", msg |-> NoError,
          new_data_arrays |-> [i \in 1..Len(old_data_arrays) |->
                                 ArrayDiv(old_data_arrays[i], exposure)],
          new_unit |-> UnitDiv(old_unit, u_s)]

_calculate_exposure_time_correction(old_data_arrays, old_unit, exposure, force) ==
    IF force # TRUE /\ "s" \in DecomposeBases(old_unit)
    THEN Raise("ValueError", "", APPLY_EXPOSURE_TIME_ERROR, <<>>)
           @@ [new_data_arrays |-> <<>>, new_unit |-> old_unit]
    ELSE [status |-> "ok", msg |-> NoError,
          new_data_arrays |-> [i \in 1..Len(old_data_arrays) |->
                                 ArrayDiv(old_data_arrays[i], exposure)],
          new_unit |-> UnitDiv(old_unit, u_s)]

\* _uncalculate_exposure_time_correction dividing once more instead of multiplying
_uncalculate_dividing(old_data_arrays, old_unit, exposure, force) ==
    IF force # TRUE /\ "s" \in DecomposeBases(UnitMul(old_unit, u_s))
    THEN Raise("ValueError", "", UNDO_EXPOSURE_TIME_ERROR, <<>>)
           @@ [new_data_arrays |-> <<>>, new_unit |-> old_unit]
    ELSE [status |-> "ok", msg |-> NoError,
          new_data_arrays |-> [i \in 1..Len(old_data_arrays) |->
                                 ArrayDiv(old_data_arrays[i], exposure)],
          new_unit |-> UnitMul(old_unit, u_s)]

_uncalculate_exposure_time_correction(old_data_arrays, old_unit, exposure, force) ==
    IF force # TRUE /\ "s" \in DecomposeBases(UnitMul(old_unit, u_s))
    THEN Raise("ValueError", "", UNDO_EXPOSURE_TIME_ERROR, <<>>)
           @@ [new_data_arrays |-> <<>>, new_unit |-> old_unit]
    ELSE [status |-> "ok", msg |-> NoError,
          new_data_arrays |-> [i \in 1..Len(old_data_arrays) |->
                                 ArrayMul(old_data_arrays[i], exposure)],
          new_unit |-> UnitMul(old_unit, u_s)]

Failed(r) == [status |-> r.status, msg |-> r.msg, cube |-> None]

\* len(self.dimensions)
NDim(self) == Len(self.data.shape)

\* NewInstance leaving the side table out
NewInstanceWithoutExtraCoords(self, new_data_arrays, new_unit) ==
    __init__(new_data_arrays[1], self.wcs, None, new_unit, Some(new_data_arrays[2]),
             self.meta, self.mask, self.missing_axes)

\* the new instance apply_exposure_time_correction returns (lines 280-283)
NewInstance(self, new_data_arrays, new_unit) ==
    LET x == convert_extra_coords_dict_to_input_format(self.extra_coords)
    IN  IF x.status # "ok" THEN Failed(Raise(x.status, "", "", <<>>))
        ELSE __init__(new_data_arrays[1], self.wcs, x.value, new_unit,
                      Some(new_data_arrays[2]), self.meta, self.mask, self.missing_axes)

\* apply_exposure_time_correction correcting the data alone when the cube has
\* no uncertainty
apply_exposure_time_correction_data_only(self, undo, force) ==
    LET et == exposure_time(self)
    IN  IF et.status # "ok" THEN Failed(et)
        ELSE IF Get(et.value).unit \notin {"s", "min"}
        THEN Failed(Raise("UnitConversionError", "", "", <<>>))
        ELSE LET exposure_time_s == ToSeconds(Get(et.value))
                 arrays == IF IsNone(self.uncertainty) THEN <<self.data>>
                           ELSE <<self.data, Get(self.uncertainty)>>
                 c == IF undo = TRUE
                      THEN _uncalculate_exposure_time_correction(
                               arrays, self.unit, exposure_time_s, force)
                      ELSE _calculate_exposure_time_correction(
                               arrays, self.unit, exposure_time_s, force)
             IN  IF ~exposure_time_s.scalar /\ NDim(self) \notin {1, 2, 3}
                 THEN Failed(Raise("ValueError", "1", DIMENSIONS_ERROR, <<>>))
                 ELSE IF c.status # "ok" THEN Failed(c)
                 ELSE IF ~IsNone(self.uncertainty)
                 THEN NewInstance(self, c.new_data_arrays, c.new_unit)
                 ELSE __init__(c.new_data_arrays[1], self.wcs,
                               convert_extra_coords_dict_to_input_format(
                                   self.extra_coords).value,
                               c.new_unit, None, self.meta, self.mask, self.missing_axes)

apply_exposure_time_correction(self, undo, force) ==
    LET et == exposure_time(self)
    IN  IF et.status # "ok" THEN Failed(et)
        ELSE IF Get(et.value).unit \notin {"s", "min"}
        THEN Failed(Raise("UnitConversionError", "", "", <<>>))
        ELSE LET exposure_time_s == ToSeconds(Get(et.value))
             IN  \* a per-exposure array is reshaped for 1, 2 or 3 dimensions only;
                 \* the message formats len(self.dimensions.shape), which is 1
                 IF ~exposure_time_s.scalar /\ NDim(self) \notin {1, 2, 3}
                 THEN Failed(Raise("ValueError", "1", DIMENSIONS_ERROR, <<>>))
                 ELSE IF IsNone(self.uncertainty)
                 THEN Failed(Raise("AttributeError", "", "'NoneType' object has no attribute 'array'", <<>>))
                 ELSE LET arrays == <<self.data, Get(self.uncertainty)>>
                          c == IF undo = TRUE
                               THEN _uncalculate_exposure_time_correction(
                                        arrays, self.unit, exposure_time_s, force)
                               ELSE _calculate_exposure_time_correction(
                                        arrays, self.unit, exposure_time_s, force)
                      IN  IF c.status # "ok" THEN Failed(c)
                          ELSE NewInstance(self, c.new_data_arrays, c.new_unit)

-----------------------------------------------------------------------------
(* Slicing, spectrogram.py lines 211-220.  An item is a tuple with one     *)
(* entry per data axis: [kind |-> "int", lo |-> i] for an integer index,   *)
(* [kind |-> "slice", lo |-> a, hi |-> b] for a slice a:b (0-based).       *)

\* the data axes (1-based) an item keeps
KeptAxes(item) == IndicesIn([a \in 1..Len(item) |-> item[a].kind], {"slice"}, 1)

\* numpy indexing array[item]
SliceArray(a, item) ==
    LET kept == KeptAxes(item)
        shape == [j \in 1..Len(kept) |-> item[kept[j]].hi - item[kept[j]].lo]
        Pos(ax) == CHOOSE j \in 1..Len(kept) : kept[j] = ax
        Old(idx) == [ax \in 1..Len(item) |->
                       IF item[ax].kind = "int" THEN item[ax].lo + 1
                       ELSE idx[Pos(ax)] + item[ax].lo]
    IN  [shape |-> shape, val |-> [idx \in IndexSet(shape) |-> a.val[Old(idx)]]]

SliceOptional(a, item) == IF IsNone(a) THEN None ELSE Some(SliceArray(Get(a), item))

\* values[item[axis]] of one extra coordinate
SliceQuantity(q, it) ==
    IF it.kind = "int"
    THEN [q EXCEPT !.scalar = TRUE, !.vals = <<q.vals[it.lo + 1]>>]
    ELSE [q EXCEPT !.vals = SubSeq(q.vals, it.lo + 1, it.hi)]

\* the number of integer-indexed data axes before data axis ax (0-based)
DroppedBefore(item, ax) == Cardinality({b \in 1..ax : item[b].kind = "int"})

\* NDCube.__getitem__ (ndcube's slicing mixin): data, uncertainty and mask are
\* indexed, an integer-indexed axis becomes a missing axis of the WCS, and
\* every extra coordinate is kept, indexed along its own axis
NDCubeGetItem(self, item) ==
    LET present == IndicesIn(self.missing_axes, {FALSE}, 1)
        dropped == {present[a] : a \in {b \in 1..Len(item) : item[b].kind = "int"}}
        SliceEntry(en) ==
            IF IsNone(en.axis) THEN en
            ELSE LET it == item[Get(en.axis) + 1]
                 IN  [name |-> en.name,
                      axis |-> IF it.kind = "int" THEN None
                               ELSE Some(Get(en.axis) - DroppedBefore(item, Get(en.axis))),
                      value |-> SliceQuantity(en.value, it)]
    IN  [data |-> SliceArray(self.data, item),
         wcs |-> self.wcs,
         unit |-> self.unit,
         uncertainty |-> SliceOptional(self.uncertainty, item),
         mask |-> SliceOptional(self.mask, item),
         meta |-> self.meta,
         extra_coords |-> IF IsNone(self.extra_coords) THEN None
                          ELSE Some([i \in 1..Len(Get(self.extra_coords)) |->
                                       SliceEntry(Get(self.extra_coords)[i])]),
         missing_axes |-> [w \in 1..Len(self.missing_axes) |->
                             self.missing_axes[w] \/ w \in dropped]]

\* __getitem__ handing the parent's cached spectral location to the sliced cube
__getitem__copying_location(self, item) ==
    LET result == NDCubeGetItem(self, item)
        extra_coords == IF IsNone(result.extra_coords) THEN None
                        ELSE convert_extra_coords_dict_to_input_format(
                                 result.extra_coords).value
        made == __init__(result.data, result.wcs, extra_coords, result.unit,
                         result.uncertainty, result.meta, result.mask, result.missing_axes)
    IN  IF made.status # "ok" THEN made
        ELSE [made EXCEPT !.cube = Some([Get(made.cube) EXCEPT
                                           !._spectral_name = self._spectral_name,
                                           !._spectral_loc = self._spectral_loc])]

__getitem__(self, item) ==
    LET result == NDCubeGetItem(self, item)
        extra_coords == IF IsNone(result.extra_coords) THEN None
                        ELSE convert_extra_coords_dict_to_input_format(
                                 result.extra_coords).value
    IN  __init__(result.data, result.wcs, extra_coords, result.unit, result.uncertainty,
                 result.meta, result.mask, result.missing_axes)

-----------------------------------------------------------------------------
(* The cubes the model starts from.                                        *)

RECURSIVE SumSeq(_, _)
SumSeq(s, i) == IF i > Len(s) THEN 0 ELSE s[i] + SumSeq(s, i + 1)

\* the k-th value (k >= 1) of a repeating pattern
Pick(pattern, k) == pattern[((k - 1) % Len(pattern)) + 1]

\* an array of the shape filled with the pattern along its diagonals
Filled(shape, pattern) ==
    [shape |-> shape,
     val |-> [idx \in IndexSet(shape) |-> Pick(pattern, SumSeq(idx, 1) - Len(shape) + 1)]]

DataPattern == <<F(13), F(3), F(7), F(1)>>
UncertaintyPattern == <<F(1), F(3)>>
MaskPattern == <<FALSE, TRUE>>

\* exposure times: all non-zero, or with a zero among them
ExposurePatterns == {<<F(3), F(5), F(6)>>, <<F(0), F(3)>>}

\* physical types of a raster's WCS axes in data-axis order, the spectral
\* axis last; further leading axes carry a type no list supports
RasterTypes == <<"time", "custom:pos.helioprojective.lon",
                 "custom:pos.helioprojective.lat", "em.wl">>

WcsTypes(n, spectral) ==
    [i \in 1..n |->
       LET k == i + Len(RasterTypes) - n
       IN  IF k < 1 \/ (i = n /\ ~spectral) THEN "custom:other" ELSE RasterTypes[k]]

\* the first axis has N entries, the last MaxLen, the axes between them one
InitShape(n, N) == [i \in 1..n |-> IF i = 1 THEN N ELSE IF i = n THEN MaxLen ELSE 1]

\* the exposure-time entries of the side table: none, one value for the whole
\* cube, or one value per exposure along the first data axis, in s or in min
ExposureInputs(N) ==
    {<<>>}
      \cup {<<<<"exposure time", None, [scalar |-> TRUE, vals |-> <<F(3)>>, unit |-> "s"]>>>>}
      \cup {<<<<"exposure time", Some(0),
              [scalar |-> FALSE, vals |-> [i \in 1..N |-> Pick(p, i)], unit |-> un]>>>> :
              p \in ExposurePatterns, un \in {"s", "min"}}

\* a wavelength entry of the side table along the last data axis
SpectralInput(n, shape) ==
    <<<<"wavelength", Some(n - 1),
        [scalar |-> FALSE, vals |-> [i \in 1..shape[n] |-> F(i)], unit |-> "Angstrom"]>>>>

Fresh ==
    [op |-> "idle", undo |-> FALSE, force |-> FALSE, item |-> <<>>,
     status |-> "ok", msg |-> NoError, value |-> None, cube |-> None]

Init ==
    \E n \in 1..MaxDim, N \in 1..MaxLen, spectralWcs \in BOOLEAN, spectralExtra \in BOOLEAN,
       seconds \in {0, -1}, withUncertainty \in BOOLEAN, withMask \in {TRUE} :
      \E ex \in ExposureInputs(N) :
        LET shape == InitShape(n, N)
            extra == ex \o (IF spectralExtra THEN SpectralInput(n, shape) ELSE <<>>)
            made == __init__(Filled(shape, DataPattern),
                             [types |-> WcsTypes(n, spectralWcs)],
                             IF extra = <<>> THEN None ELSE Some(extra),
                             [b \in BaseUnits |-> IF b = "ct" THEN 1 ELSE seconds],
                             IF withUncertainty THEN Some(Filled(shape, UncertaintyPattern))
                             ELSE None,
                             "meta",
                             IF withMask THEN Some(Filled(shape, MaskPattern)) ELSE None,
                             [i \in 1..n |-> FALSE])
        IN  /\ made.status = "ok"
            /\ cube = Get(made.cube)
            /\ orig = cube
            /\ hist = <<>>
            /\ last = Fresh

-----------------------------------------------------------------------------
(* The operations on the current cube.  last is the outcome of the call    *)
(* just made: what was called, whether it returned or raised, and the      *)
(* result; it is Fresh while no outcome is pending.                        *)

\* the receiver with the data, uncertainty and unit of the cube it returned,
\* as in-place arithmetic (old_data /= exposure_time) would leave it
ReceiverCorrectedInPlace(self, outcome) ==
    IF IsNone(outcome.cube) THEN self
    ELSE [self EXCEPT !.data = Get(outcome.cube).data,
                      !.uncertainty = Get(outcome.cube).uncertainty,
                      !.unit = Get(outcome.cube).unit]

\* the receiver once a call on it has returned or raised with that outcome:
\* no method but __init__ assigns to an attribute of self, the accessors and
\* __getitem__ only read, and the arithmetic of the correction (old_data /
\* exposure_time, old_data * exposure_time, old_unit / u.s) builds new arrays
\* and a new unit
ReceiverAfterCall(self, outcome) == self

ReadSpectralAxis ==
    /\ last = Fresh
    /\ last' = spectral_axis(cube) @@ [Fresh EXCEPT !.op = "spectral_axis"]
    /\ cube' = ReceiverAfterCall(cube, last')
    /\ UNCHANGED <<orig, hist>>

ReadTime ==
    /\ last = Fresh
    /\ last' = time(cube) @@ [Fresh EXCEPT !.op = "time"]
    /\ cube' = ReceiverAfterCall(cube, last')
    /\ UNCHANGED <<orig, hist>>

ReadExposureTime ==
    /\ last = Fresh
    /\ last' = exposure_time(cube) @@ [Fresh EXCEPT !.op = "exposure_time"]
    /\ cube' = ReceiverAfterCall(cube, last')
    /\ UNCHANGED <<orig, hist>>

ReadLon ==
    /\ last = Fresh
    /\ last' = lon(cube) @@ [Fresh EXCEPT !.op = "lon"]
    /\ cube' = ReceiverAfterCall(cube, last')
    /\ UNCHANGED <<orig, hist>>

ReadLat ==
    /\ last = Fresh
    /\ last' = lat(cube) @@ [Fresh EXCEPT !.op = "lat"]
    /\ cube' = ReceiverAfterCall(cube, last')
    /\ UNCHANGED <<orig, hist>>

ApplyExposureTimeCorrection ==
    /\ last = Fresh
    /\ \E undo \in BOOLEAN, force \in BOOLEAN :
         last' = apply_exposure_time_correction(cube, undo, force)
                   @@ [Fresh EXCEPT !.op = "apply_exposure_time_correction",
                                    !.undo = undo, !.force = force]
    /\ cube' = ReceiverAfterCall(cube, last')
    /\ UNCHANGED <<orig, hist>>

\* the items tried: an integer index or the slice 0:1 on the first or on the
\* last data axis, the full slice on the others
Items(self) ==
    LET n == NDim(self)
        Full(a) == [kind |-> "slice", lo |-> 0, hi |-> self.data.shape[a]]
    IN  {[a \in 1..n |-> IF a = ax THEN it ELSE Full(a)] :
           ax \in {1, n},
           it \in {[kind |-> "slice", lo |-> 0, hi |-> 1]}
                    \cup {[kind |-> "int", lo |-> i, hi |-> i + 1] :
                            i \in IF n >= 2 THEN {0, MaxLen - 1} ELSE {}}}

GetItem ==
    /\ last = Fresh
    /\ \E item \in Items(cube) :
         /\ \A a \in 1..Len(item) : item[a].hi <= cube.data.shape[a]
         /\ last' = __getitem__(cube, item)
                      @@ [Fresh EXCEPT !.op = "__getitem__", !.item = item]
    /\ cube' = ReceiverAfterCall(cube, last')
    /\ UNCHANGED <<orig, hist>>

\* the caller goes on: with the returned cube as the receiver of the next
\* calls, or with the same receiver
Continue ==
    /\ last # Fresh
    /\ \/ /\ ~IsNone(last.cube)
          /\ Len(hist) < MaxChain
          /\ cube' = Get(last.cube)
          /\ hist' = Append(hist, [op |-> last.op, undo |-> last.undo,
                                   force |-> last.force, item |-> last.item])
       \/ UNCHANGED <<hist, cube>>
    /\ last' = Fresh
    /\ UNCHANGED orig

Next ==
    \/ ReadSpectralAxis
    \/ ReadTime
    \/ ReadExposureTime
    \/ ReadLon
    \/ ReadLat
    \/ ApplyExposureTimeCorrection
    \/ GetItem
    \/ Continue

Spec == Init /\ [][Next]_vars

-----------------------------------------------------------------------------
(* Chains of unforced corrections: from a cube whose unit has no time in   *)
(* it, apply_exposure_time_correction is called with force=False, applied   *)
(* or undone, and each cube it returns may become the receiver of the next  *)
(* call.                                                                    *)

InitUnforced ==
    /\ Init
    /\ orig.unit["s"] = 0

UnforcedCorrection ==
    /\ last = Fresh
    /\ \E undo \in BOOLEAN :
         last' = apply_exposure_time_correction(cube, undo, FALSE)
                   @@ [Fresh EXCEPT !.op = "apply_exposure_time_correction",
                                    !.undo = undo, !.force = FALSE]
    /\ cube' = ReceiverAfterCall(cube, last')
    /\ UNCHANGED <<orig, hist>>

ContinueUnforced ==
    /\ last # Fresh
    /\ \/ /\ ~IsNone(last.cube)
          /\ Len(hist) < MaxUnforced
          /\ cube' = Get(last.cube)
          /\ hist' = Append(hist, [op |-> last.op, undo |-> last.undo,
                                   force |-> last.force, item |-> last.item])
       \/ UNCHANGED <<hist, cube>>
    /\ last' = Fresh
    /\ UNCHANGED orig

NextUnforced ==
    \/ UnforcedCorrection
    \/ ContinueUnforced

SpecUnforced == InitUnforced /\ [][NextUnforced]_vars

-----------------------------------------------------------------------------
(* The resolver on its own: the inputs are drawn from bounded sets, and    *)
(* the one action applies _find_axis_name to them.                         *)

\* labels to resolve a quantity against: two of its aliases, an alias of
\* another quantity, and a label no list supports
Labels(q) ==
    LET names == SupportedNames(q)
        other == SupportedNames(IF q = "time" THEN "spectral" ELSE "time")
    IN  {names[1], names[Len(names)], other[1], "custom:other"}

SeqsUpTo(S, n) == UNION {[1..k -> S] : k \in 0..n}

\* side tables: None, or a dict (its keys distinct, possibly none at all)
SideTables(q) ==
    {None} \cup
    {Some([i \in 1..Len(keys) |-> [name |-> keys[i], axis |-> None, value |-> None]]) :
       keys \in {ks \in SeqsUpTo(Labels(q), MaxKeys) :
                   \A i, j \in 1..Len(ks) : ks[i] = ks[j] => i = j}}

InitResolver ==
    /\ orig = None
    /\ cube = None
    /\ hist = <<>>
    /\ \E q \in Quantities :
         \E types \in SeqsUpTo(Labels(q), MaxTypes), extra_coords \in SideTables(q) :
           last = [op |-> "idle", quantity |-> q, world_axis_physical_types |-> types,
                   extra_coords |-> extra_coords,
                   status |-> "ok", name |-> None, loc |-> None]

FindAxisName ==
    /\ last.op = "idle"
    /\ last' = _find_axis_name(SupportedNames(last.quantity),
                               last.world_axis_physical_types, last.extra_coords)
                 @@ [last EXCEPT !.op = "_find_axis_name"]
    /\ UNCHANGED <<orig, hist, cube>>

NextResolver == FindAxisName

SpecResolver == InitResolver /\ [][NextResolver]_vars

-----------------------------------------------------------------------------
(* Properties.                                                             *)

\* the five accessors: the cached name each reads, and the message it is to raise
Accessors ==
    {[op |-> "spectral_axis", field |-> "_spectral_name", head |-> "Spectral",
      names |-> SUPPORTED_SPECTRAL_NAMES],
     [op |-> "time", field |-> "_time_name", head |-> "Time",
      names |-> SUPPORTED_TIME_NAMES],
     [op |-> "exposure_time", field |-> "_exposure_time_name", head |-> "Exposure time",
      names |-> SUPPORTED_EXPOSURE_NAMES],
     [op |-> "lon", field |-> "_longitude_name", head |-> "Longitude",
      names |-> SUPPORTED_LONGITUDE_NAMES],
     [op |-> "lat", field |-> "_latitude_name", head |-> "Latitude",
      names |-> SUPPORTED_LATITUDE_NAMES]}

\* C1: reading any of the five accessors on a cube whose cached name for that
\* quantity is unresolved raises a ValueError whose message names the quantity
\* and lists the supported aliases of that quantity, and no other error.
C1_UnresolvedAccessorRaisesAxisNotFound ==
    \A acc \in Accessors :
      (last.op = acc.op /\ IsNone(cube[acc.field]))
        => /\ last.status = "ValueError"
           /\ last.msg = [head |-> acc.head, text |-> AXIS_NOT_FOUND_ERROR,
                          names |-> acc.names]

\* the positions of the labels that are supported names of the quantity
Matching(q, labels) == {i \in 1..Len(labels) : labels[i] \in Range(SupportedNames(q))}

KeysOf(extra_coords) ==
    IF IsNone(extra_coords) THEN <<>> ELSE ExtraKeys(Get(extra_coords))

Lowest(S) == CHOOSE i \in S : \A j \in S : i <= j

\* C2: whenever one or more WCS physical types are supported names, also when
\* two or more are, _find_axis_name returns the matching type at the lowest
\* axis index, with source "wcs".
C2_LowestMatchingTypeWins ==
    LET types == last.world_axis_physical_types
        hits == Matching(last.quantity, types)
    IN  (last.op = "_find_axis_name" /\ hits # {})
          => /\ last.status = "ok"
             /\ last.name = Some(types[Lowest(hits)])
             /\ last.loc = Some("wcs")

\* C3: with exactly one matching WCS physical type the source is "wcs", even
\* if a side-table key matches too; with no matching type and exactly one
\* matching side-table key the source is "extra_coords" and the name that key;
\* with no match at all, also for a side table that is None or empty, name and
\* source are both None and nothing is raised; the source is present exactly
\* when the name is, and the side table is left as it was.
C3_SourcePrecedenceAndFallback ==
    LET q == last.quantity
        types == last.world_axis_physical_types
        keys == KeysOf(last.extra_coords)
        inWcs == Matching(q, types)
        inTable == Matching(q, keys)
    IN  last.op = "_find_axis_name"
          => /\ Cardinality(inWcs) = 1
                  => /\ last.status = "ok"
                     /\ last.name = Some(types[Lowest(inWcs)])
                     /\ last.loc = Some("wcs")
             /\ (inWcs = {} /\ Cardinality(inTable) = 1)
                  => /\ last.status = "ok"
                     /\ last.name = Some(keys[Lowest(inTable)])
                     /\ last.loc = Some("extra_coords")
             /\ (inWcs = {} /\ inTable = {})
                  => /\ last.status = "ok"
                     /\ last.name = None
                     /\ last.loc = None
             /\ last.status = "ok" => (IsNone(last.name) <=> IsNone(last.loc))

\* the source is "wcs" although a side-table key is a supported name too
C3_WcsPreferredReached ==
    /\ last.op = "_find_axis_name"
    /\ Cardinality(Matching(last.quantity, last.world_axis_physical_types)) = 1
    /\ Matching(last.quantity, KeysOf(last.extra_coords)) # {}
    /\ last.loc = Some("wcs")

-----------------------------------------------------------------------------
(* Properties of the exposure-time correction.                             *)

\* the exposure-time entry of a cube that resolves it
ExposureOf(c) == Get(_get_axis_coord(c, c._exposure_time_name, c._exposure_time_loc))

\* the correction has what it works on: a resolved exposure time, an
\* uncertainty, and data a per-exposure array can be spread over
Correctable(c) ==
    /\ ~IsNone(c._exposure_time_name)
    /\ ~IsNone(c.uncertainty)
    /\ ExposureOf(c).scalar \/ NDim(c) \in {1, 2, 3}

NonZeroExposure(c) ==
    \A i \in 1..Len(ExposureOf(c).vals) : ExposureOf(c).vals[i] # FZero

Called(undo, force) ==
    /\ last.op = "apply_exposure_time_correction"
    /\ last.undo = undo
    /\ last.force = force

CorrectionStep(undo, force) ==
    [op |-> "apply_exposure_time_correction", undo |-> undo, force |-> force, item |-> <<>>]

\* |r - x| <= x * (2 * 2^-MantBits + 2^-(2 * MantBits)): the error two
\* roundings to nearest can leave
Close(r, x) ==
    /\ r.k = "num"
    /\ x.k = "num"
    /\ LET k == Min(r.e, x.e)
           R == r.m * Pow2(r.e - k)
           X == x.m * Pow2(x.e - k)
           D == IF R >= X THEN R - X ELSE X - R
       IN  D * Pow2(2 * MantBits) <= X * (Pow2(MantBits + 1) + 1)

CloseArrays(a, b) ==
    /\ a.shape = b.shape
    /\ \A idx \in DOMAIN b.val : Close(a.val[idx], b.val[idx])

RoundTripFrom(c) ==
    /\ Correctable(c)
    /\ NonZeroExposure(c)
    /\ c.unit["s"] = 0

\* C4 as claimed: apply followed by undo, both unforced, on a cube with a
\* resolved non-zero exposure time and a unit without time succeeds and gives
\* back data and uncertainty equal to the original element by element, and
\* the original unit.
C4_RoundTripExact ==
    /\ (hist = <<>> /\ Called(FALSE, FALSE) /\ RoundTripFrom(cube))
         => last.status = "ok"
    /\ (hist = <<CorrectionStep(FALSE, FALSE)>> /\ Called(TRUE, FALSE) /\ RoundTripFrom(orig))
         => /\ last.status = "ok"
            /\ Get(last.cube).data = orig.data
            /\ Get(last.cube).uncertainty = orig.uncertainty
            /\ Get(last.cube).unit = orig.unit

\* C4: apply followed by undo, both unforced, on a cube with a resolved
\* non-zero exposure time and a unit without time succeeds and gives back the
\* original unit exactly, and data and uncertainty of the original shape that
\* agree with the original to within the rounding of one division and one
\* multiplication.
C4_RoundTripWithinRounding ==
    /\ (hist = <<>> /\ Called(FALSE, FALSE) /\ RoundTripFrom(cube))
         => last.status = "ok"
    /\ (hist = <<CorrectionStep(FALSE, FALSE)>> /\ Called(TRUE, FALSE) /\ RoundTripFrom(orig))
         => /\ last.status = "ok"
            /\ CloseArrays(Get(last.cube).data, orig.data)
            /\ CloseArrays(Get(Get(last.cube).uncertainty), Get(orig.uncertainty))
            /\ Get(last.cube).unit = orig.unit

\* an undo has returned a cube right after an apply on a cube with several
\* non-zero exposure times
C4_RoundTripReached ==
    /\ hist = <<CorrectionStep(FALSE, FALSE)>>
    /\ Called(TRUE, FALSE)
    /\ RoundTripFrom(orig)
    /\ Len(ExposureOf(orig).vals) > 1
    /\ last.status = "ok"

\* the exposure time in seconds that meets element idx of the data
SecondsAt(c, idx) == ExposureAt(ToSeconds(ExposureOf(c)), idx)

DividedBy(new, old, c) ==
    /\ new.shape = old.shape
    /\ \A idx \in DOMAIN old.val : new.val[idx] = FDiv(old.val[idx], SecondsAt(c, idx))

MultipliedBy(new, old, c) ==
    /\ new.shape = old.shape
    /\ \A idx \in DOMAIN old.val : new.val[idx] = FMul(old.val[idx], SecondsAt(c, idx))

\* C5: on a cube whose unit has seconds to a negative power, an unforced apply
\* raises the apply-exposure-time ValueError and returns no cube; a forced
\* apply returns a cube with data and uncertainty divided by the exposure time
\* and the unit divided by seconds, the exponent of seconds one lower.
C5_ApplyGuard ==
    (last.op = "apply_exposure_time_correction" /\ last.undo = FALSE
       /\ Correctable(cube) /\ cube.unit["s"] < 0)
      => IF last.force
         THEN /\ last.status = "ok"
              /\ DividedBy(Get(last.cube).data, cube.data, cube)
              /\ DividedBy(Get(Get(last.cube).uncertainty), Get(cube.uncertainty), cube)
              /\ Get(last.cube).unit = UnitDiv(cube.unit, u_s)
              /\ Get(last.cube).unit["s"] = cube.unit["s"] - 1
         ELSE /\ last.status = "ValueError"
              /\ last.msg.text = APPLY_EXPOSURE_TIME_ERROR
              /\ IsNone(last.cube)

\* an unforced apply was refused on a cube already per second
C5_RefusedReached ==
    /\ Called(FALSE, FALSE)
    /\ Correctable(cube)
    /\ cube.unit["s"] = -1
    /\ last.status = "ValueError"

\* C6: an unforced undo is refused with the undo-exposure-time ValueError
\* exactly when the unit has no seconds to a negative power; for every unit
\* with seconds to the power -1, -2, ... it returns a cube with data and
\* uncertainty multiplied by the exposure time and the unit times seconds.
C6_UndoGuardIffNoInverseTime ==
    (Called(TRUE, FALSE) /\ Correctable(cube))
      => IF cube.unit["s"] < 0
         THEN /\ last.status = "ok"
              /\ MultipliedBy(Get(last.cube).data, cube.data, cube)
              /\ MultipliedBy(Get(Get(last.cube).uncertainty), Get(cube.uncertainty), cube)
              /\ Get(last.cube).unit = UnitMul(cube.unit, u_s)
         ELSE /\ last.status = "ValueError"
              /\ last.msg.text = UNDO_EXPOSURE_TIME_ERROR
              /\ IsNone(last.cube)

\* C7: on data of four or more dimensions the correction, applied or undone,
\* forced or not, raises the dimensionality ValueError and returns no cube,
\* whatever the resolved exposure time is, an array or a single value (stated
\* for cubes that carry an uncertainty).
C7_FourDimensionsRejected ==
    (last.op = "apply_exposure_time_correction" /\ NDim(cube) >= 4
       /\ ~IsNone(cube._exposure_time_name) /\ ~IsNone(cube.uncertainty))
      => /\ last.status = "ValueError"
         /\ last.msg.text = DIMENSIONS_ERROR
         /\ IsNone(last.cube)

\* C8: a successful apply on data of one, two or three dimensions with a
\* per-exposure array in seconds, as long as the first data axis, returns data
\* and uncertainty of the same shape in which every element [i, ...] is the
\* original one divided by exposure_time[i].
C8_BroadcastAlongFirstAxis ==
    (last.op = "apply_exposure_time_correction" /\ last.undo = FALSE /\ last.status = "ok"
       /\ NDim(cube) \in {1, 2, 3}
       /\ ~ExposureOf(cube).scalar /\ ExposureOf(cube).unit = "s")
      => LET t == ExposureOf(cube).vals
             new == Get(last.cube)
         IN  /\ Len(t) = cube.data.shape[1]
             /\ new.data.shape = cube.data.shape
             /\ Get(new.uncertainty).shape = cube.data.shape
             /\ \A idx \in IndexSet(cube.data.shape) :
                  /\ new.data.val[idx] = FDiv(cube.data.val[idx], t[idx[1]])
                  /\ Get(new.uncertainty).val[idx]
                       = FDiv(Get(cube.uncertainty).val[idx], t[idx[1]])

\* an apply has returned for two-dimensional data with several rows and
\* several exposure times that differ
C8_TwoDimensionalReached ==
    /\ last.op = "apply_exposure_time_correction"
    /\ last.undo = FALSE
    /\ last.status = "ok"
    /\ NDim(cube) = 2
    /\ cube.data.shape[1] > 1
    /\ ~ExposureOf(cube).scalar
    /\ ExposureOf(cube).unit = "s"
    /\ ExposureOf(cube).vals[1] # ExposureOf(cube).vals[2]

-----------------------------------------------------------------------------
(* Properties of slicing and of the returned instance.                     *)

\* a two-dimensional cube whose spectral axis is resolved by the WCS type of
\* data axis 1
SpectralInWcsAtAxis1(c) ==
    /\ NDim(c) = 2
    /\ c._spectral_loc = Some("wcs")
    /\ Len(world_axis_physical_types(c.wcs, c.missing_axes)) = 2
    /\ c._spectral_name = Some(world_axis_physical_types(c.wcs, c.missing_axes)[2])

AxisNotFound(r) ==
    /\ r.status = "ValueError"
    /\ r.msg.text = AXIS_NOT_FOUND_ERROR

\* C9 as claimed: slicing such a cube gives a cube whose spectral_axis still
\* resolves when the slice keeps data axis 1, and a cube whose cached spectral
\* name is unresolved, so that spectral_axis raises, when an integer index
\* removes data axis 1.
C9_RemovedAxisUnresolved ==
    (last.op = "__getitem__" /\ SpectralInWcsAtAxis1(cube))
      => /\ last.status = "ok"
         /\ last.item[2].kind = "slice"
              => /\ ~IsNone(Get(last.cube)._spectral_name)
                 /\ spectral_axis(Get(last.cube)).status = "ok"
         /\ last.item[2].kind = "int"
              => /\ IsNone(Get(last.cube)._spectral_name)
                 /\ AxisNotFound(spectral_axis(Get(last.cube)))

\* C9: slicing such a cube resolves the spectral axis anew against the sliced
\* cube: a slice that keeps data axis 1 leaves it resolved by the WCS; an
\* integer index that removes data axis 1 leaves it unresolved, so that
\* spectral_axis raises the axis-not-found ValueError, unless exactly one
\* side-table key is a supported spectral name, and then it is resolved by
\* that key from the side table.  The parent's cached location is never handed on.
C9_SliceResolvesAnew ==
    /\ (last.op = "__getitem__" /\ SpectralInWcsAtAxis1(cube))
         => LET new == Get(last.cube)
                inTable == Matching("spectral", KeysOf(cube.extra_coords))
            IN  /\ last.status = "ok"
                /\ last.item[2].kind = "slice"
                     => /\ new._spectral_name = cube._spectral_name
                        /\ new._spectral_loc = Some("wcs")
                        /\ spectral_axis(new).status = "ok"
                /\ (last.item[2].kind = "int" /\ inTable = {})
                     => /\ IsNone(new._spectral_name)
                        /\ IsNone(new._spectral_loc)
                        /\ AxisNotFound(spectral_axis(new))
                /\ (last.item[2].kind = "int" /\ Cardinality(inTable) = 1)
                     => /\ new._spectral_name
                             = Some(KeysOf(cube.extra_coords)[Lowest(inTable)])
                        /\ new._spectral_loc = Some("extra_coords")
                        /\ spectral_axis(new).status = "ok"
    /\ (Len(hist) > 0 /\ hist[Len(hist)].op = "__getitem__" /\ last.op = "spectral_axis")
         => IF IsNone(cube._spectral_name) THEN AxisNotFound(last)
            ELSE last.status = "ok"

\* an integer index has removed the spectral axis and left it unresolved
C9_RemovedReached ==
    /\ last.op = "__getitem__"
    /\ SpectralInWcsAtAxis1(cube)
    /\ last.item[2].kind = "int"
    /\ last.status = "ok"
    /\ IsNone(Get(last.cube)._spectral_name)

CachedFields ==
    {"_longitude_name", "_longitude_loc", "_latitude_name", "_latitude_loc",
     "_spectral_name", "_spectral_loc", "_time_name", "_time_loc",
     "_exposure_time_name", "_exposure_time_loc"}

\* C10: a correction that returns, applied or undone, returns a cube whose
\* WCS, metadata, mask and side table (names, data axes, values) are those of
\* the receiver, and whose five resolved names and sources are the receiver's.
C10_CorrectionFrame ==
    (last.op = "apply_exposure_time_correction" /\ last.status = "ok")
      => LET new == Get(last.cube)
         IN  /\ new.wcs = cube.wcs
             /\ new.missing_axes = cube.missing_axes
             /\ new.meta = cube.meta
             /\ new.mask = cube.mask
             /\ new.extra_coords = cube.extra_coords
             /\ \A f \in CachedFields : new[f] = cube[f]

\* an undo has returned for a cube with two side-table entries and a mask
C10_UndoReturnedReached ==
    /\ last.op = "apply_exposure_time_correction"
    /\ last.undo = TRUE
    /\ last.status = "ok"
    /\ Len(Get(cube.extra_coords)) = 2
    /\ ~IsNone(cube.mask)
    /\ cube._spectral_loc = Some("wcs")


-----------------------------------------------------------------------------
(* Properties of the receiver and of what a call hands back.               *)

CubeOps == {"apply_exposure_time_correction", "__getitem__"}

\* an instance as __init__ leaves it: data, uncertainty and mask of one shape,
\* and the ten cached fields those the resolver gives for its own WCS types
\* and side table
FullyFormed(c) ==
    LET types == world_axis_physical_types(c.wcs, c.missing_axes)
        Resolved(q) == _find_axis_name(SupportedNames(q), types, c.extra_coords)
    IN  /\ DOMAIN c.data.val = IndexSet(c.data.shape)
        /\ ~IsNone(c.uncertainty) => Get(c.uncertainty).shape = c.data.shape
        /\ ~IsNone(c.mask) => Get(c.mask).shape = c.data.shape
        /\ \A q \in Quantities : Resolved(q).status = "ok"
        /\ c._longitude_name = Resolved("longitude").name
        /\ c._longitude_loc = Resolved("longitude").loc
        /\ c._latitude_name = Resolved("latitude").name
        /\ c._latitude_loc = Resolved("latitude").loc
        /\ c._spectral_name = Resolved("spectral").name
        /\ c._spectral_loc = Resolved("spectral").loc
        /\ c._time_name = Resolved("time").name
        /\ c._time_loc = Resolved("time").loc
        /\ c._exposure_time_name = Resolved("exposure_time").name
        /\ c._exposure_time_loc = Resolved("exposure_time").loc

\* C11: whatever reads, slices and corrections are called on a cube, each
\* returning or raising, the cube stays as it was constructed (data,
\* uncertainty, unit, mask, side table, WCS, cached names and sources): the
\* first cube equals its value at construction as long as it is the receiver,
\* and no call changes its receiver.  A slice or a correction either returns
\* a fully formed new instance or raises and hands back none; an accessor
\* hands back no instance.
C11_ReceiverNeverModified ==
    /\ [](hist = <<>> => cube = orig)
    /\ [](last.op \in CubeOps
            => /\ last.status = "ok" <=> ~IsNone(last.cube)
               /\ ~IsNone(last.cube) => FullyFormed(Get(last.cube)))
    /\ [](last.op \notin CubeOps => IsNone(last.cube))
    /\ [][/\ last = Fresh => cube' = cube
          /\ last # Fresh => (cube' = cube \/ cube' = Get(last.cube))
          /\ orig' = orig]_vars

\* a correction has returned a cube with other data and another unit, and its
\* receiver, the first cube, is as constructed
C11_ReturnedAndReceiverIntactReached ==
    /\ hist = <<>>
    /\ last.op = "apply_exposure_time_correction"
    /\ last.status = "ok"
    /\ Get(last.cube).data # cube.data
    /\ Get(last.cube).unit # cube.unit
    /\ cube = orig


-----------------------------------------------------------------------------
(* Properties of chains of unforced corrections.                           *)

RECURSIVE IntPow(_, _)
IntPow(b, n) == IF n = 0 THEN 1 ELSE b * IntPow(b, n - 1)

\* |r - x| <= x * ((1 + 2^-MantBits)^(2 * trips) - 1): the error that many
\* divisions and multiplications, each rounded to nearest, can leave
CloseAfter(r, x, trips) ==
    /\ r.k = "num"
    /\ x.k = "num"
    /\ LET k == Min(r.e, x.e)
           R == r.m * Pow2(r.e - k)
           X == x.m * Pow2(x.e - k)
           D == IF R >= X THEN R - X ELSE X - R
       IN  D * IntPow(Pow2(MantBits), 2 * trips)
             <= X * (IntPow(Pow2(MantBits) + 1, 2 * trips)
                       - IntPow(Pow2(MantBits), 2 * trips))

CloseArraysAfter(a, b, trips) ==
    /\ a.shape = b.shape
    /\ \A idx \in DOMAIN b.val : CloseAfter(a.val[idx], b.val[idx], trips)

\* the part of C12 on units and guards: the receiver's exponent of seconds is
\* 0 or -1, the corrections that returned alternate, starting with an apply,
\* and a call returns exactly in the state that allows it
UnforcedStates ==
    /\ cube.unit["s"] \in {0, -1}
    /\ cube.unit["s"] = (IF Len(hist) % 2 = 0 THEN 0 ELSE -1)
    /\ \A i \in 1..Len(hist) :
         /\ hist[i].op = "apply_exposure_time_correction"
         /\ hist[i].force = FALSE
         /\ hist[i].undo = (i % 2 = 0)
    /\ Called(FALSE, FALSE)
         => /\ last.status = "ok" <=> cube.unit["s"] = 0
            /\ last.status = "ok" => Get(last.cube).unit["s"] = -1
    /\ Called(TRUE, FALSE)
         => /\ last.status = "ok" <=> cube.unit["s"] = -1
            /\ last.status = "ok" => Get(last.cube).unit["s"] = 0

\* C12 as claimed: along every chain of unforced corrections from a cube
\* whose unit has no time in it, the exponent of seconds is 0 or -1, apply
\* returns exactly at 0 and undo exactly at -1, so that they alternate, and
\* with non-zero exposure times every cube of the chain at exponent 0 has
\* the data and the uncertainty of the first cube.
C12_UnforcedChainRestoresExactly ==
    Correctable(orig)
      => /\ UnforcedStates
         /\ (NonZeroExposure(orig) /\ cube.unit["s"] = 0)
              => /\ cube.data = orig.data
                 /\ cube.uncertainty = orig.uncertainty

\* C12: along every chain of unforced corrections from a cube whose unit has
\* no time in it (exposure time resolved, uncertainty present), the exponent
\* of seconds is 0 or -1, apply returns exactly at 0 and undo exactly at -1,
\* so that they alternate, and with non-zero exposure times every cube of the
\* chain at exponent 0 has data and uncertainty of the first cube's shape
\* that agree with the first cube's to within the rounding of the divisions
\* and multiplications made on the way.
C12_UnforcedChainTwoStates ==
    Correctable(orig)
      => /\ UnforcedStates
         /\ (NonZeroExposure(orig) /\ cube.unit["s"] = 0)
              => /\ CloseArraysAfter(cube.data, orig.data, Len(hist) \div 2)
                 /\ CloseArraysAfter(Get(cube.uncertainty), Get(orig.uncertainty),
                                     Len(hist) \div 2)

\* after an apply and an undo, a further apply has returned and a further
\* undo was refused on the cube that is back at exponent 0
C12_SecondRoundReached ==
    /\ Correctable(orig)
    /\ NonZeroExposure(orig)
    /\ Len(hist) = 2
    /\ cube.unit["s"] = 0
    /\ Called(FALSE, FALSE)
    /\ last.status = "ok"
    /\ Get(last.cube).unit["s"] = -1


-----------------------------------------------------------------------------
(* Property of the correction on a cube without uncertainty.               *)

\* C13: on a cube without uncertainty, with a resolved exposure time and data
\* of one to three dimensions, apply_exposure_time_correction, applied or
\* undone, forced or not, raises (an AttributeError, from reading
\* self.uncertainty.array) and returns no cube, also where the guard on the
\* unit lets the call through; a correction that returns was called on a cube
\* with an uncertainty.
C13_NoUncertaintyAlwaysFails ==
    last.op = "apply_exposure_time_correction"
      => /\ (IsNone(cube.uncertainty) /\ ~IsNone(cube._exposure_time_name)
                /\ NDim(cube) \in {1, 2, 3})
              => /\ last.status = "AttributeError"
                 /\ IsNone(last.cube)
         /\ last.status = "ok" => ~IsNone(cube.uncertainty)

\* an unforced apply has failed on a two-dimensional cube without uncertainty
\* whose unit has no time in it
C13_FailedWhereGuardPassesReached ==
    /\ Called(FALSE, FALSE)
    /\ IsNone(cube.uncertainty)
    /\ ~IsNone(cube._exposure_time_name)
    /\ NDim(cube) = 2
    /\ cube.unit["s"] = 0
    /\ last.status # "ok"
    /\ IsNone(last.cube)

=============================================================================
